---- MODULE Spec2Model ----
(***************************************************************************)
(* The interactive ingest wizard of cmd/cli/cmd/datarepo.go: ingestCmd.Run *)
(* and the four steps it calls, one action per blocking prompt or          *)
(* collaborator call together with the code that follows it up to the next *)
(* blocking call.                                                          *)
(***************************************************************************)
EXTENDS Integers, Sequences, FiniteSets, TLC

VARIABLES
    pc,                  \* the prompt or call Run is blocked on, "done" or "exited"
    manifest,            \* var manifest IngestManifest (datarepo.go:274)
    err,                 \* the err handed to cobra.CheckErr
    result,              \* local `result` of the location / format step
    config,              \* local `config` of the running config builder
    selectors,           \* local `selectors` of the format step (datarepo.go:135)
    sampledSchema,       \* local of buildDatarepoSchema
    tablePreview,        \* local of buildDatarepoSchema
    finalizedSchemaStr,  \* local of buildDatarepoSchema
    printed,             \* what the run wrote with fmt.Println, in order
    trace,               \* history: every prompt and collaborator call issued
    writes               \* history: number of assignments to each manifest field

vars == <<pc, manifest, err, result, config, selectors, sampledSchema,
          tablePreview, finalizedSchemaStr, printed, trace, writes>>

-----------------------------------------------------------------------------
(* Bounds of the model *)

\* how many distinct free texts the user may type at a TextPrompt
MaxTexts == 2
\* how many distinct failures a prompt or a collaborator may report
MaxFailures == 1
\* how many distinct schemas the sampler may propose
MaxSchemas == 2

TextPool == <<"my-bucket", "data/", "", "logs", "archive">>
Texts == {TextPool[i] : i \in 1..MaxTexts}

FailurePool == <<"^C", "EOF", "timeout", "denied">>
Failures == {FailurePool[i] : i \in 1..MaxFailures}

-----------------------------------------------------------------------------
(* Identifiers of package ingest *)

DataformatIDIndividualFiles == "individual_files"
DataformatIDCSVFiles == "csv_files"
DataformatIDDatabaseTable == "database_table"
DatasourceIDLocalDirectory == "local_directory"
DatasourceIDAWSS3 == "aws_s3"
CSVDelimiterCommas == "commas"
CSVDelimiterTabs == "tabs"

-----------------------------------------------------------------------------
(* Selectable options, datarepo.go:32-85 *)

IndividualBinaryFilesSelector ==
    [Name |-> "Files (WIP)",
     Value |-> DataformatIDIndividualFiles,
     Description |-> "Individual files on disk or in object storage."]

CommaSeparatedValuesFilesSelector ==
    [Name |-> "CSV Files",
     Value |-> DataformatIDCSVFiles,
     Description |-> "Comma-separated value files on disk or in object storage. Other delimiters such as tabs are also supported."]

DatabaseTableSelector ==
    [Name |-> "Database Table (WIP)",
     Value |-> DataformatIDDatabaseTable,
     Description |-> "A database table from databases such as PostgreSQL, Snowflake or BigQuery."]

LocalDirectorySelector ==
    [Name |-> "Local Directory (WIP)",
     Value |-> DatasourceIDLocalDirectory,
     Description |-> "A directory on your current machine's local filesystem."]

AWSS3Selector ==
    [Name |-> "AWS S3",
     Value |-> DatasourceIDAWSS3,
     Description |-> "An AWS S3 Bucket and prefix, indicating a collection of AWS S3 objects."]

CommasSelector ==
    [Name |-> "Commas: ,",
     Value |-> CSVDelimiterCommas,
     Description |-> "The most common type of delimiter in CSV files."]

TabsSelector ==
    [Name |-> "Tabs: \\t",
     Value |-> CSVDelimiterTabs,
     Description |-> "Values in each column are separated by a tab."]

locationSelectors == <<AWSS3Selector, LocalDirectorySelector>>

\* a mutation of allowedSelectors: the AWS S3 entry is missing
allowedSelectorsWithoutS3 ==
    [v \in {LocalDirectorySelector.Value} |->
        <<CommaSeparatedValuesFilesSelector, IndividualBinaryFilesSelector>>]

\* a mutation of allowedSelectors: AWS S3 also offers database tables
allowedSelectorsWithTables ==
    [v \in {AWSS3Selector.Value, LocalDirectorySelector.Value} |->
        IF v = AWSS3Selector.Value
        THEN <<CommaSeparatedValuesFilesSelector, IndividualBinaryFilesSelector,
               DatabaseTableSelector>>
        ELSE <<CommaSeparatedValuesFilesSelector, IndividualBinaryFilesSelector>>]

allowedSelectors ==
    [v \in {AWSS3Selector.Value, LocalDirectorySelector.Value} |->
        <<CommaSeparatedValuesFilesSelector, IndividualBinaryFilesSelector>>]

csvDelimiterSelectors == <<CommasSelector, TabsSelector>>

\* the zero value of selectPromptData
ZeroSelector == [Name |-> "", Value |-> "", Description |-> ""]

\* the nil ingest.ManifestConfig
NilConfig == [kind |-> "nil"]

\* a mutation of LookupSelectors: the last compatible format is dropped
LookupSelectorsDroppingLast(key) ==
    IF key \in DOMAIN allowedSelectors
    THEN SubSeq(allowedSelectors[key], 1, Len(allowedSelectors[key]) - 1)
    ELSE <<>>

\* allowedSelectors[key]: a Go map yields the zero value, a nil slice, for a
\* key it does not hold
LookupSelectors(key) ==
    IF key \in DOMAIN allowedSelectors THEN allowedSelectors[key] ELSE <<>>

Range(s) == {s[i] : i \in 1..Len(s)}

-----------------------------------------------------------------------------
(* Errors: a Go error is its dynamic type and its message *)

NoErr == [type |-> "nil", msg |-> ""]

\* errors.New, and fmt.Errorf without %w, which returns errors.New of the text
ErrorsNew(msg) == [type |-> "*errors.errorString", msg |-> msg]

\* %s of a selectPromptData prints its three string fields in braces
FormatSelector(s) == "{" \o s.Name \o " " \o s.Value \o " " \o s.Description \o "}"

\* what a failing prompt returns: an error of the prompt engine's own
PromptErrors == {[type |-> "*prompt.Error", msg |-> f] : f \in Failures}

\* what a failing sampling collaborator returns
SamplerErrors == {[type |-> "*sample.Error", msg |-> f] : f \in Failures}

-----------------------------------------------------------------------------
(* YAML text: a sequence of lines; a line is a comment, a blank, a          *)
(* "key: value" pair, or text that is no YAML at all                        *)

Comment(t) == [kind |-> "comment", k |-> "", v |-> t]
Blank == [kind |-> "blank", k |-> "", v |-> ""]
KV(k, v) == [kind |-> "kv", k |-> k, v |-> v]
Bad(t) == [kind |-> "bad", k |-> "", v |-> t]

\* datarepo.go:20-30
SchemaEditorTutorialBlurb ==
    <<Comment(" This editor lets you make manual modifications to your field types to help Daft ingest your data."),
      Comment(""),
      Comment(" Daft types and what they mean:"),
      Comment(""),
      Comment("     \"string\": A simple string"),
      Comment("     \"uri/s3\": A URL to S3 that starts with s3://..."),
      Comment("     \"uri/http\": A URL to a HTTP resource that can be retrieved with a GET request"),
      Comment(""),
      Blank,
      Blank>>

\* schema.SchemaField, an opaque record to the wizard
ZeroSchema == [name |-> "", type |-> ""]
SchemaPool == <<[name |-> "id", type |-> "string"],
                [name |-> "image", type |-> "uri/s3"],
                [name |-> "link", type |-> "uri/http"],
                [name |-> "label", type |-> "string"]>>
Schemas == {SchemaPool[i] : i \in 1..MaxSchemas}

\* the previews PreviewSamples may render: commented out, or a raw table
Previews == {<<Comment(" preview")>>, <<Bad("| id | image |")>>}

\* yaml.Marshal(sampledSchema)
MarshalSchema(s) == <<KV("name", s.name), KV("type", s.type)>>

KeyLines(text, key) == {i \in 1..Len(text) : text[i].kind = "kv" /\ text[i].k = key}

ValueOf(text, key) ==
    IF KeyLines(text, key) = {} THEN ""
    ELSE text[CHOOSE i \in KeyLines(text, key) : TRUE].v

\* yaml.Unmarshal([]byte(text), &recordField): comments and blanks are
\* skipped, keys the record does not have are ignored, a key given twice
\* or a line that is no YAML is an error
UnmarshalSchema(text) ==
    IF \E i \in 1..Len(text) : text[i].kind = "bad"
    THEN [val |-> ZeroSchema, err |-> ErrorsNew("yaml: could not find expected ':'")]
    ELSE IF \E key \in {text[i].k : i \in 1..Len(text)} :
                key # "" /\ Cardinality(KeyLines(text, key)) > 1
    THEN [val |-> ZeroSchema, err |-> ErrorsNew("yaml: mapping key already defined")]
    ELSE [val |-> [name |-> ValueOf(text, "name"), type |-> ValueOf(text, "type")],
          err |-> NoErr]

\* a bool as a YAML scalar
YamlBool(b) == IF b THEN "true" ELSE "false"

\* the yaml of one ManifestConfig: its exported fields under their keys
MarshalConfig(c) ==
    CASE c.kind = "AWSS3" -> [bucket |-> c.Bucket, prefix |-> c.Prefix]
      [] c.kind = "CSVFiles" -> [delimiter |-> c.Delimiter, header |-> YamlBool(c.Header)]
      [] OTHER -> [null |-> "null"]

\* yaml.Marshal(manifest): the two exported, tagged fields of IngestManifest;
\* the unexported selected options are not serialized
MarshalManifest(m) ==
    [datasourceType |-> MarshalConfig(m.DatasourceFormatConfig),
     datasourceLocation |-> MarshalConfig(m.DatasourceLocationConfig)]

\* a YAML mapping read back as a ManifestConfig: the concrete config is
\* told by the keys of the mapping
UnmarshalConfig(y) ==
    CASE DOMAIN y = {"bucket", "prefix"} ->
            [kind |-> "AWSS3", Bucket |-> y.bucket, Prefix |-> y.prefix]
      [] DOMAIN y = {"delimiter", "header"} ->
            [kind |-> "CSVFiles", Delimiter |-> y.delimiter, Header |-> (y.header = "true")]
      [] OTHER -> NilConfig

\* yaml.Unmarshal(text, &manifest), every outcome: the unexported selected
\* options are never written and keep their zero value; the two mappings
\* are decoded into their configs, or refused because the target is an
\* interface value
UnmarshalManifest(y) ==
    {[val |-> [selectedDatasourceType |-> ZeroSelector,
               DatasourceFormatConfig |-> UnmarshalConfig(y.datasourceType),
               selectedDatasourceLocation |-> ZeroSelector,
               DatasourceLocationConfig |-> UnmarshalConfig(y.datasourceLocation)],
      err |-> NoErr],
     [val |-> [selectedDatasourceType |-> ZeroSelector,
               DatasourceFormatConfig |-> NilConfig,
               selectedDatasourceLocation |-> ZeroSelector,
               DatasourceLocationConfig |-> NilConfig],
      err |-> [type |-> "*yaml.TypeError",
               msg |-> "yaml: unmarshal errors: cannot unmarshal !!map into ingest.ManifestConfig"]]}

-----------------------------------------------------------------------------
(* The prompt engine and the sampling collaborator: every value they may    *)
(* return, as (val, err) pairs                                              *)

SelectPrompt(options) ==
    {[val |-> o, err |-> NoErr] : o \in Range(options)}
        \cup {[val |-> ZeroSelector, err |-> e] : e \in PromptErrors}

BoolPrompt ==
    {[val |-> b, err |-> NoErr] : b \in BOOLEAN}
        \cup {[val |-> FALSE, err |-> e] : e \in PromptErrors}

TextPrompt ==
    {[val |-> t, err |-> NoErr] : t \in Texts}
        \cup {[val |-> "", err |-> e] : e \in PromptErrors}

\* the text the user leaves in the editor: the initial text untouched, a
\* schema rewritten by hand, a key typed twice, text that is no YAML, nothing
EditedTexts(initial) ==
    {initial}
        \cup {MarshalSchema(s) : s \in Schemas}
        \cup {<<KV("name", "id"), KV("name", "id2")>>,
              <<KV("name", "id"), Bad("type string")>>,
              <<>>}

EditorPrompt(initial) ==
    {[val |-> t, err |-> NoErr] : t \in EditedTexts(initial)}
        \cup {[val |-> <<>>, err |-> e] : e \in PromptErrors}

SamplerFactory ==
    {[val |-> "sampler", err |-> NoErr]}
        \cup {[val |-> "nil", err |-> e] : e \in SamplerErrors}

SampleSchema ==
    {[val |-> s, err |-> NoErr] : s \in Schemas}
        \cup {[val |-> ZeroSchema, err |-> e] : e \in SamplerErrors}

PreviewSamples ==
    {[val |-> p, err |-> NoErr] : p \in Previews}
        \cup {[val |-> <<>>, err |-> e] : e \in SamplerErrors}

-----------------------------------------------------------------------------
(* The state after `var manifest IngestManifest`, with Run blocked on the   *)
(* first prompt                                                             *)

ZeroManifest ==
    [selectedDatasourceType |-> ZeroSelector,
     DatasourceFormatConfig |-> NilConfig,
     selectedDatasourceLocation |-> ZeroSelector,
     DatasourceLocationConfig |-> NilConfig]

ManifestFields == DOMAIN ZeroManifest

Init ==
    /\ pc = "Data Source"
    /\ manifest = ZeroManifest
    /\ err = NoErr
    /\ result = ZeroSelector
    /\ config = NilConfig
    /\ selectors = <<>>
    /\ sampledSchema = ZeroSchema
    /\ tablePreview = <<>>
    /\ finalizedSchemaStr = <<>>
    /\ printed = <<"">>
    /\ trace = <<>>
    /\ writes = [f \in ManifestFields |-> 0]

Log(op, r) == trace' = Append(trace, [op |-> op, res |-> r.val, err |-> r.err])

\* a mutation of CheckErr: the error is recorded and Run goes on
CheckErrContinuing(e, next) ==
    /\ err' = e
    /\ pc' = next

\* a mutation of CheckErr: the error is wrapped before it is reported
CheckErrWrapping(e, next) ==
    /\ err' = IF e # NoErr THEN [type |-> "*fmt.wrapError", msg |-> "ingest: " \o e.msg]
              ELSE e
    /\ pc' = IF e # NoErr THEN "exited" ELSE next

\* cobra.CheckErr(e) in Run: a non-nil error is reported and the process
\* exits; a nil one lets Run go on to `next`
CheckErr(e, next) ==
    /\ err' = e
    /\ pc' = IF e # NoErr THEN "exited" ELSE next

\* the locals of a step that returned are gone
DropLocals == result' = ZeroSelector /\ config' = NilConfig

\* a mutation of the location switch: Local Directory falls through to the
\* S3 builder
buildLocationConfigLocalAsS3(location) ==
    CASE location = LocalDirectorySelector -> [err |-> NoErr, builder |-> "AWSS3"]
      [] location = AWSS3Selector -> [err |-> NoErr, builder |-> "AWSS3"]
      [] OTHER -> [err |-> ErrorsNew("datasource location "
                                     \o FormatSelector(location) \o " not supported"),
                   builder |-> "none"]

\* datarepo.go:182-195, up to the builder's first prompt
buildDatasourceLocationConfigForSelectedLocation(location) ==
    CASE location = LocalDirectorySelector ->
            [err |-> ErrorsNew("local directories not yet supported"), builder |-> "none"]
      [] location = AWSS3Selector -> [err |-> NoErr, builder |-> "AWSS3"]
      [] OTHER -> [err |-> ErrorsNew("datasource location "
                                     \o FormatSelector(location) \o " not supported"),
                   builder |-> "none"]

\* buildDatasourceLocationConfig: the "Data Source" prompt is answered
DataSourcePrompt ==
    /\ pc = "Data Source"
    /\ \E r \in SelectPrompt(locationSelectors) :
        LET b == IF r.err # NoErr
                 THEN [err |-> r.err, builder |-> "none"]
                 ELSE buildDatasourceLocationConfigForSelectedLocation(r.val)
        IN /\ Log("Data Source", r)
           /\ IF b.err # NoErr
              THEN CheckErr(b.err, "Data format") /\ DropLocals
              ELSE /\ result' = r.val
                   /\ config' = [kind |-> "AWSS3", Bucket |-> "", Prefix |-> ""]
                   /\ pc' = "AWS S3 Bucket"
                   /\ err' = err
    /\ UNCHANGED <<manifest, selectors, sampledSchema, tablePreview,
                   finalizedSchemaStr, printed, writes>>

\* a mutation of BucketPrompt: the prompt's error is dropped and the builder
\* goes on with the text it got
BucketPromptIgnoringError ==
    /\ pc = "AWS S3 Bucket"
    /\ \E r \in TextPrompt :
        /\ Log("AWS S3 Bucket", r)
        /\ config' = [config EXCEPT !.Bucket = r.val]
        /\ pc' = "AWS S3 Prefix"
        /\ UNCHANGED <<err, result>>
    /\ UNCHANGED <<manifest, selectors, sampledSchema, tablePreview,
                   finalizedSchemaStr, printed, writes>>

\* NewAWSS3LocationConfigFromPrompts: the "AWS S3 Bucket" prompt is answered
BucketPrompt ==
    /\ pc = "AWS S3 Bucket"
    /\ \E r \in TextPrompt :
        /\ Log("AWS S3 Bucket", r)
        /\ IF r.err # NoErr
           THEN CheckErr(r.err, "Data format") /\ DropLocals
           ELSE /\ config' = [config EXCEPT !.Bucket = r.val]
                /\ pc' = "AWS S3 Prefix"
                /\ UNCHANGED <<err, result>>
    /\ UNCHANGED <<manifest, selectors, sampledSchema, tablePreview,
                   finalizedSchemaStr, printed, writes>>

\* the assignments of datarepo.go:177-178
SetLocation(m, r, c) ==
    [m EXCEPT !.selectedDatasourceLocation = r, !.DatasourceLocationConfig = c]

\* the "AWS S3 Prefix" prompt is answered; the builder returns, the location
\* step stores its result and Run enters the format step, which looks up
\* the compatible formats and issues the "Data format" prompt
PrefixPrompt ==
    /\ pc = "AWS S3 Prefix"
    /\ \E r \in TextPrompt :
        /\ Log("AWS S3 Prefix", r)
        /\ IF r.err # NoErr
           THEN CheckErr(r.err, "Data format") /\ UNCHANGED <<manifest, writes, selectors>>
           ELSE /\ manifest' = SetLocation(manifest, result,
                                           [config EXCEPT !.Prefix = r.val])
                /\ writes' = [writes EXCEPT !["selectedDatasourceLocation"] = @ + 1,
                                            !["DatasourceLocationConfig"] = @ + 1]
                /\ CheckErr(NoErr, "Data format")
                /\ selectors' = LookupSelectors(result.Value)
    /\ DropLocals
    /\ UNCHANGED <<sampledSchema, tablePreview, finalizedSchemaStr, printed>>

\* a mutation of the format switch: individual files get the CSV builder
formatSwitchFilesAsCSV(r) ==
    CASE r.Value = IndividualBinaryFilesSelector.Value -> [err |-> NoErr, builder |-> "CSVFiles"]
      [] r.Value = CommaSeparatedValuesFilesSelector.Value -> [err |-> NoErr, builder |-> "CSVFiles"]
      [] r.Value = DatabaseTableSelector.Value ->
            [err |-> ErrorsNew("database tables not yet supported"), builder |-> "none"]
      [] OTHER -> [err |-> ErrorsNew("datasource type " \o FormatSelector(r)
                                     \o " not supported"),
                   builder |-> "none"]

\* the switch of datarepo.go:145-160, up to the builder's first prompt
formatSwitch(r) ==
    CASE r.Value = IndividualBinaryFilesSelector.Value ->
            [err |-> ErrorsNew("individual binary files not yet supported"),
             builder |-> "none"]
      [] r.Value = CommaSeparatedValuesFilesSelector.Value ->
            [err |-> NoErr, builder |-> "CSVFiles"]
      [] r.Value = DatabaseTableSelector.Value ->
            [err |-> ErrorsNew("database tables not yet supported"), builder |-> "none"]
      [] OTHER -> [err |-> ErrorsNew("datasource type " \o FormatSelector(r)
                                     \o " not supported"),
                   builder |-> "none"]

\* buildDatasourceFormatConfig: the "Data format" prompt is answered
DataFormatPrompt ==
    /\ pc = "Data format"
    /\ \E r \in SelectPrompt(selectors) :
        LET b == IF r.err # NoErr
                 THEN [err |-> r.err, builder |-> "none"]
                 ELSE formatSwitch(r.val)
        IN /\ Log("Data format", r)
           /\ IF b.err # NoErr
              THEN CheckErr(b.err, "Confirm and detect schema") /\ DropLocals
              ELSE /\ result' = r.val
                   /\ config' = [kind |-> "CSVFiles", Delimiter |-> "", Header |-> FALSE]
                   /\ pc' = "Delimiter"
                   /\ err' = err
    /\ UNCHANGED <<manifest, selectors, sampledSchema, tablePreview, finalizedSchemaStr,
                   printed, writes>>

\* NewCSVFilesFormatConfigFromPrompts: the "Delimiter" prompt is answered
DelimiterPrompt ==
    /\ pc = "Delimiter"
    /\ \E r \in SelectPrompt(csvDelimiterSelectors) :
        /\ Log("Delimiter", r)
        /\ IF r.err # NoErr
           THEN CheckErr(r.err, "Confirm and detect schema") /\ DropLocals
           ELSE /\ config' = [config EXCEPT !.Delimiter = r.val.Value]
                /\ pc' = "CSV files contain header row"
                /\ UNCHANGED <<err, result>>
    /\ UNCHANGED <<manifest, selectors, sampledSchema, tablePreview,
                   finalizedSchemaStr, printed, writes>>

\* a mutation of SetFormat: the chosen format also overwrites the location
SetFormatClobbering(m, r, c) ==
    [m EXCEPT !.selectedDatasourceType = r, !.DatasourceFormatConfig = c,
              !.selectedDatasourceLocation = r]

\* the assignments of datarepo.go:153-154
SetFormat(m, r, c) ==
    [m EXCEPT !.selectedDatasourceType = r, !.DatasourceFormatConfig = c]

\* the "CSV files contain header row" prompt is answered; the builder
\* returns, the format step stores its result, and Run enters the
\* confirmation step, which prints the manifest and issues its prompt
HeaderPrompt ==
    /\ pc = "CSV files contain header row"
    /\ \E r \in BoolPrompt :
        /\ Log("CSV files contain header row", r)
        /\ IF r.err # NoErr
           THEN CheckErr(r.err, "Confirm and detect schema")
                /\ UNCHANGED <<manifest, writes, printed>>
           ELSE /\ manifest' = SetFormat(manifest, result,
                                         [config EXCEPT !.Header = r.val])
                /\ writes' = [writes EXCEPT !["selectedDatasourceType"] = @ + 1,
                                            !["DatasourceFormatConfig"] = @ + 1]
                /\ CheckErr(NoErr, "Confirm and detect schema")
                /\ printed' = printed \o <<"Data Source Configurations:", "",
                                           MarshalManifest(manifest')>>
    /\ DropLocals
    /\ UNCHANGED <<selectors, sampledSchema, tablePreview, finalizedSchemaStr>>

\* a mutation of CancelError: the cancellation is swallowed
CancelErrorSwallowed(answer, msg) == NoErr

\* a mutation of CancelError: the answer is read the wrong way round
CancelErrorInverted(answer, msg) == IF answer THEN ErrorsNew(msg) ELSE NoErr

\* a mutation of CancelError: the schema step reports an error of its own type
CancelErrorTyped(answer, msg) ==
    IF answer THEN NoErr
    ELSE IF msg = "aborted finalizing schema"
         THEN [type |-> "*cmd.AbortError", msg |-> msg]
         ELSE ErrorsNew(msg)

\* `if !result { return errors.New(msg) }` of datarepo.go:209-211 and 249-251
CancelError(answer, msg) == IF ~answer THEN ErrorsNew(msg) ELSE NoErr

\* confirmDatasourceConfigs: the "Confirm and detect schema" prompt is
\* answered; on yes Run enters buildDatarepoSchema, which calls SamplerFactory
ConfirmDetectPrompt ==
    /\ pc = "Confirm and detect schema"
    /\ \E r \in BoolPrompt :
        /\ Log("Confirm and detect schema", r)
        /\ CheckErr(IF r.err # NoErr THEN r.err
                    ELSE CancelError(r.val, "user cancelled data source configurations"),
                    "SamplerFactory")
    /\ UNCHANGED <<manifest, result, config, selectors, sampledSchema, tablePreview,
                   finalizedSchemaStr, printed, writes>>

\* sample.SamplerFactory(formatConfig, locationConfig) returns
SamplerFactoryCall ==
    /\ pc = "SamplerFactory"
    /\ \E r \in SamplerFactory :
        /\ Log("SamplerFactory", r)
        /\ CheckErr(r.err, "SampleSchema")
    /\ UNCHANGED <<manifest, result, config, selectors, sampledSchema, tablePreview,
                   finalizedSchemaStr, printed, writes>>

\* sampler.SampleSchema() returns
SampleSchemaCall ==
    /\ pc = "SampleSchema"
    /\ \E r \in SampleSchema :
        /\ Log("SampleSchema", r)
        /\ CheckErr(r.err, "PreviewSamples")
        /\ sampledSchema' = r.val
    /\ UNCHANGED <<manifest, result, config, selectors, tablePreview,
                   finalizedSchemaStr, printed, writes>>

\* a mutation of PreviewSamplesCall: the preview's error is dropped and the
\* editor is opened without a preview
PreviewSamplesCallIgnoringError ==
    /\ pc = "PreviewSamples"
    /\ \E r \in PreviewSamples :
        /\ Log("PreviewSamples", r)
        /\ CheckErr(NoErr, "EditorPrompt")
        /\ tablePreview' = r.val
    /\ UNCHANGED <<manifest, result, config, selectors, sampledSchema,
                   finalizedSchemaStr, printed, writes>>

\* PreviewSamples(sampledSchema, sampler) returns; the schema is marshalled
\* and the editor is opened on blurb + preview + schema
PreviewSamplesCall ==
    /\ pc = "PreviewSamples"
    /\ \E r \in PreviewSamples :
        /\ Log("PreviewSamples", r)
        /\ CheckErr(r.err, "EditorPrompt")
        /\ tablePreview' = r.val
    /\ UNCHANGED <<manifest, result, config, selectors, sampledSchema,
                   finalizedSchemaStr, printed, writes>>

\* the first argument of EditorPrompt, datarepo.go:233
EditorInitialText ==
    SchemaEditorTutorialBlurb \o tablePreview \o MarshalSchema(sampledSchema)

\* a mutation of AfterEdit: the parse error is ignored
AfterEditIgnoringParse(r) == r.err

\* the error of datarepo.go:233-241: the editor's, else the parse's
AfterEdit(r) == IF r.err # NoErr THEN r.err ELSE UnmarshalSchema(r.val).err

\* EditorPrompt returns; the text is parsed, printed, and the "Confirm
\* finalized schema" prompt is issued
EditorPromptReturn ==
    /\ pc = "EditorPrompt"
    /\ \E r \in EditorPrompt(EditorInitialText) :
        /\ Log("EditorPrompt", r)
        /\ finalizedSchemaStr' = r.val
        /\ CheckErr(AfterEdit(r), "Confirm finalized schema")
        /\ printed' = IF AfterEdit(r) # NoErr THEN printed
                      ELSE printed \o <<"Final Schema:", r.val>>
    /\ UNCHANGED <<manifest, result, config, selectors, sampledSchema, tablePreview,
                   writes>>

\* a mutation of ConfirmSchemaPrompt: a no reopens the editor
ConfirmSchemaPromptReopeningEditor ==
    /\ pc = "Confirm finalized schema"
    /\ \E r \in BoolPrompt :
        /\ Log("Confirm finalized schema", r)
        /\ IF r.err = NoErr /\ ~r.val
           THEN pc' = "EditorPrompt" /\ err' = err
           ELSE CheckErr(r.err, "done")
    /\ UNCHANGED <<manifest, result, config, selectors, sampledSchema, tablePreview,
                   finalizedSchemaStr, printed, writes>>

\* the "Confirm finalized schema" prompt is answered; on yes
\* buildDatarepoSchema returns nil and Run returns
ConfirmSchemaPrompt ==
    /\ pc = "Confirm finalized schema"
    /\ \E r \in BoolPrompt :
        /\ Log("Confirm finalized schema", r)
        /\ CheckErr(IF r.err # NoErr THEN r.err
                    ELSE CancelError(r.val, "aborted finalizing schema"),
                    "done")
    /\ UNCHANGED <<manifest, result, config, selectors, sampledSchema, tablePreview,
                   finalizedSchemaStr, printed, writes>>

\* ingestCmd.Run, datarepo.go:272-287
Next ==
    \/ DataSourcePrompt
    \/ BucketPrompt
    \/ PrefixPrompt
    \/ DataFormatPrompt
    \/ DelimiterPrompt
    \/ HeaderPrompt
    \/ ConfirmDetectPrompt
    \/ SamplerFactoryCall
    \/ SampleSchemaCall
    \/ PreviewSamplesCall
    \/ EditorPromptReturn
    \/ ConfirmSchemaPrompt

Spec == Init /\ [][Next]_vars

\* every prompt and every collaborator call returns: a blocked Run is
\* eventually resumed
FairSpec == Spec /\ WF_vars(Next)

-----------------------------------------------------------------------------
(* Reading the history *)

Terminal == {"done", "exited"}

LocationOps == {"Data Source", "AWS S3 Bucket", "AWS S3 Prefix"}
FormatOps == {"Data format", "Delimiter", "CSV files contain header row"}
ConfirmOps == {"Confirm and detect schema"}
SamplerOps == {"SamplerFactory", "SampleSchema", "PreviewSamples"}
SchemaOps == SamplerOps \cup {"EditorPrompt", "Confirm finalized schema"}

\* the wizard step a prompt or call belongs to
StepOf(op) ==
    CASE op \in LocationOps -> 1
      [] op \in FormatOps -> 2
      [] op \in ConfirmOps -> 3
      [] op \in SchemaOps -> 4

Answered(op) == \E i \in 1..Len(trace) : trace[i].op = op

\* the prompt or call was made: it returned, or Run is blocked on it
Issued(op) == pc = op \/ Answered(op)

Entry(op) == trace[CHOOSE i \in 1..Len(trace) : trace[i].op = op]

\* the prompt or call returned without error
AnsweredOK(op) == Answered(op) /\ Entry(op).err = NoErr

\* the prompt or call returned this value, without error
AnsweredWith(op, v) == AnsweredOK(op) /\ Entry(op).res = v

Started(k) == \E op \in LocationOps \cup FormatOps \cup ConfirmOps \cup SchemaOps :
                StepOf(op) = k /\ Issued(op)

LocationSet ==
    /\ manifest.selectedDatasourceLocation # ZeroSelector
    /\ manifest.DatasourceLocationConfig # NilConfig

FormatSet ==
    /\ manifest.selectedDatasourceType # ZeroSelector
    /\ manifest.DatasourceFormatConfig # NilConfig

\* the step returned nil to Run
Completed(k) ==
    CASE k = 1 -> AnsweredOK("AWS S3 Prefix") /\ LocationSet
      [] k = 2 -> AnsweredOK("CSV files contain header row") /\ FormatSet
      [] k = 3 -> AnsweredWith("Confirm and detect schema", TRUE)

\* the error a step returns once this prompt or call has returned: the
\* prompt's or call's own, else the one the step raises on the value
StepError(e) ==
    IF e.err # NoErr THEN e.err
    ELSE CASE e.op = "Data Source" /\ e.res = LocalDirectorySelector ->
                ErrorsNew("local directories not yet supported")
           [] e.op = "Data format" /\ e.res = IndividualBinaryFilesSelector ->
                ErrorsNew("individual binary files not yet supported")
           [] e.op = "Confirm and detect schema" /\ e.res = FALSE ->
                ErrorsNew("user cancelled data source configurations")
           [] e.op = "EditorPrompt" /\ \E i \in 1..Len(e.res) : e.res[i].kind = "bad" ->
                ErrorsNew("yaml: could not find expected ':'")
           [] e.op = "EditorPrompt" /\ \E i, j \in 1..Len(e.res) :
                    i # j /\ e.res[i].kind = "kv" /\ e.res[j].kind = "kv"
                          /\ e.res[i].k = e.res[j].k ->
                ErrorsNew("yaml: mapping key already defined")
           [] e.op = "Confirm finalized schema" /\ e.res = FALSE ->
                ErrorsNew("aborted finalizing schema")
           [] OTHER -> NoErr

-----------------------------------------------------------------------------
(* Claims *)

\* C1: the steps run in the order location, format, confirmation, schema,
\* and a step begins only after every earlier step completed without error:
\* the format step never starts before the manifest's location option and
\* config are set, the confirmation never before the format config is set,
\* and the sampler is never invoked before the confirmation returned success.
StepsInOrder ==
    /\ \A i, j \in 1..Len(trace) : i < j => StepOf(trace[i].op) <= StepOf(trace[j].op)
    /\ pc \notin Terminal =>
          /\ err = NoErr
          /\ \A i \in 1..Len(trace) : StepOf(trace[i].op) <= StepOf(pc)
    /\ \A k \in 2..4 : Started(k) => \A h \in 1..(k - 1) : Started(h) /\ Completed(h)
    /\ Started(2) => LocationSet
    /\ Started(3) => FormatSet
    /\ (\E op \in SamplerOps : Issued(op)) =>
          AnsweredWith("Confirm and detect schema", TRUE)

\* C1 witness: the sampler is being invoked
SamplerInvoked == pc = "SamplerFactory"

\* C2: once a step returns an error the run ends with exactly that error,
\* no later step runs, no further prompt is issued, none is retried.
FirstErrorEndsRun ==
    /\ \A i \in 1..(Len(trace) - 1) : StepError(trace[i]) = NoErr
    /\ \A i, j \in 1..Len(trace) : i # j => trace[i].op # trace[j].op
    /\ err # NoErr => pc = "exited"
    /\ pc = "exited" => ~ENABLED Next
    /\ Len(trace) > 0 =>
          LET e == StepError(trace[Len(trace)])
          IN /\ e # NoErr => pc = "exited" /\ err = e
             /\ e = NoErr => pc # "exited" /\ err = NoErr

\* C2 witness: the format prompt itself failed and the run has ended
FormatPromptFailed ==
    /\ pc = "exited"
    /\ Answered("Data format")
    /\ Entry("Data format").err \in PromptErrors

\* C3: the sampling collaborator is invoked only after the manifest
\* confirmation was answered yes; answered no, the run ends with "user
\* cancelled data source configurations" and the collaborator is never
\* invoked.
SamplerOnlyAfterYes ==
    /\ (\E op \in SamplerOps : Issued(op)) =>
          AnsweredWith("Confirm and detect schema", TRUE)
    /\ AnsweredWith("Confirm and detect schema", FALSE) =>
          /\ pc = "exited"
          /\ err = ErrorsNew("user cancelled data source configurations")
          /\ \A op \in SamplerOps : ~Issued(op)

\* C3 witness: the manifest confirmation was answered no
ManifestDeclined == AnsweredWith("Confirm and detect schema", FALSE)

\* C4: for a location of the compatibility table, the options handed to the
\* format prompt are exactly the configured list, in order, and the value
\* the format step branches on is a member of it.
OfferedFormatsAreConfigured ==
    Issued("Data format") =>
        LET loc == manifest.selectedDatasourceLocation.Value
        IN /\ loc \in DOMAIN allowedSelectors
           /\ selectors = allowedSelectors[loc]
           /\ loc = AWSS3Selector.Value =>
                 selectors = <<CommaSeparatedValuesFilesSelector,
                               IndividualBinaryFilesSelector>>
           /\ AnsweredOK("Data format") =>
                 \E i \in 1..Len(allowedSelectors[loc]) :
                     Entry("Data format").res = allowedSelectors[loc][i]

\* C4 witness: the format prompt was answered with CSV Files
CSVFilesChosen == AnsweredWith("Data format", CommaSeparatedValuesFilesSelector)

\* C5: location AWS S3 and format Individual Files: the format step fails
\* with "individual binary files not yet supported", no CSV builder prompt
\* is issued, the manifest's format option and config stay unset and its
\* location option and config keep what the location step set.
IndividualFilesUnsupported ==
    (/\ manifest.selectedDatasourceLocation = AWSS3Selector
     /\ AnsweredWith("Data format", IndividualBinaryFilesSelector)) =>
        /\ pc = "exited"
        /\ err = ErrorsNew("individual binary files not yet supported")
        /\ ~Issued("Delimiter")
        /\ ~Issued("CSV files contain header row")
        /\ manifest.selectedDatasourceType = ZeroSelector
        /\ manifest.DatasourceFormatConfig = NilConfig
        /\ manifest.selectedDatasourceLocation = Entry("Data Source").res
        /\ manifest.DatasourceLocationConfig =
              [kind |-> "AWSS3", Bucket |-> Entry("AWS S3 Bucket").res,
               Prefix |-> Entry("AWS S3 Prefix").res]

\* C5 witness: Individual Files was chosen for an S3 location
IndividualFilesChosen ==
    /\ manifest.selectedDatasourceLocation = AWSS3Selector
    /\ AnsweredWith("Data format", IndividualBinaryFilesSelector)

\* the edited text is no YAML of the schema shape
Unparseable(text) ==
    \/ \E i \in 1..Len(text) : text[i].kind = "bad"
    \/ \E i, j \in 1..Len(text) :
          i # j /\ text[i].kind = "kv" /\ text[j].kind = "kv" /\ text[i].k = text[j].k

\* C6: when the text the editor returns does not parse, the run ends with
\* the parse error, "Confirm finalized schema" is never issued and the
\* editor is not reopened.
ParseFailureEndsRun ==
    (AnsweredOK("EditorPrompt") /\ Unparseable(Entry("EditorPrompt").res)) =>
        /\ pc = "exited"
        /\ err \in {ErrorsNew("yaml: could not find expected ':'"),
                    ErrorsNew("yaml: mapping key already defined")}
        /\ ~Issued("Confirm finalized schema")
        /\ trace[Len(trace)].op = "EditorPrompt"
        /\ Cardinality({i \in 1..Len(trace) : trace[i].op = "EditorPrompt"}) = 1
        /\ Len(printed) = 4

\* C6 witness: the editor returned text that does not parse
EditedTextUnparseable ==
    AnsweredOK("EditorPrompt") /\ Unparseable(Entry("EditorPrompt").res)

\* C7: the run reaches terminal success only if the manifest confirmation
\* was answered yes, the sampler and the preview succeeded, the edited text
\* parsed and "Confirm finalized schema" was answered yes; a no to that
\* prompt ends the run with "aborted finalizing schema".
SuccessOnlyWhenConfirmed ==
    /\ pc = "done" =>
          /\ err = NoErr
          /\ AnsweredWith("Confirm and detect schema", TRUE)
          /\ AnsweredWith("SamplerFactory", "sampler")
          /\ AnsweredOK("SampleSchema")
          /\ AnsweredOK("PreviewSamples")
          /\ AnsweredOK("EditorPrompt")
          /\ ~Unparseable(Entry("EditorPrompt").res)
          /\ AnsweredWith("Confirm finalized schema", TRUE)
    /\ AnsweredWith("Confirm finalized schema", FALSE) =>
          /\ pc = "exited"
          /\ err = ErrorsNew("aborted finalizing schema")

\* C7 witness: the run succeeded
RunSucceeded == pc = "done"

\* C8: a no at the manifest confirmation and a no at the schema
\* confirmation yield an error of the same type, whatever was chosen before.
CancellationsShareType ==
    \A op \in {"Confirm and detect schema", "Confirm finalized schema"} :
        AnsweredWith(op, FALSE) =>
            /\ pc = "exited"
            /\ err # NoErr
            /\ err.type = "*errors.errorString"

\* C8 witness: the schema confirmation was answered no
SchemaDeclined == AnsweredWith("Confirm finalized schema", FALSE)

\* why the run ended: the class of section 7 of the last prompt's outcome
EndedBy ==
    LET e == trace[Len(trace)]
    IN IF e.err # NoErr
       THEN IF e.op \in SamplerOps THEN "collaborator" ELSE "prompt"
       ELSE CASE e.op \in {"Confirm and detect schema", "Confirm finalized schema"} ->
                    "cancellation"
              [] e.op \in {"Data Source", "Data format"} -> "unsupported"
              [] e.op = "EditorPrompt" -> "serialization"

\* what a caller holding only the error can test: its dynamic type (no
\* sentinel value and no type of its own is declared for a cancellation)
LooksLikeCancellation(e) ==
    e.type = CancelError(FALSE, "user cancelled data source configurations").type

\* C9: the error of a run ended by a negative confirmation is
\* distinguishable by the caller from prompt failures, unsupported features
\* and serialization failures: no run ended for one of those reasons carries
\* an error the caller would classify as a cancellation, and conversely.
CancellationDistinguishable ==
    pc = "exited" =>
        /\ EndedBy = "cancellation" => LooksLikeCancellation(err)
        /\ EndedBy \in {"prompt", "unsupported", "serialization"} =>
              ~LooksLikeCancellation(err)

\* each field's zero value
ZeroOf(f) == ZeroManifest[f]

\* C10: each manifest field is written at most once, the location fields
\* before the format fields: a set format option or config implies a set
\* location option and config, and no field changes once it is set.
FieldsWrittenOnceInOrder ==
    /\ [](/\ \A f \in ManifestFields : writes[f] <= 1
          /\ \A f \in ManifestFields : manifest[f] # ZeroOf(f) => writes[f] = 1
          /\ (\/ manifest.selectedDatasourceType # ZeroSelector
              \/ manifest.DatasourceFormatConfig # NilConfig) => LocationSet)
    /\ [][\A f \in ManifestFields :
             manifest[f] # ZeroOf(f) => manifest'[f] = manifest[f]]_vars

\* C10 witness: all four fields are set, each written once
AllFieldsSet ==
    /\ LocationSet
    /\ FormatSet
    /\ \A f \in ManifestFields : writes[f] = 1

\* C11: provided every prompt and call returns, every run eventually reaches
\* one of the two terminal states, success or abort, and takes no step
\* afterwards; from every non-terminal state a step to abort is possible.
RunTerminates ==
    /\ <>(pc \in Terminal)
    /\ [][pc \notin Terminal /\ (pc' = "done" => pc = "Confirm finalized schema")]_vars
    /\ [](pc \notin Terminal => ENABLED (Next /\ pc' = "exited"))
    /\ [](pc \in Terminal => ~ENABLED Next)

\* C11 witness: a run has ended after the editor was used
RunEnded == pc \in Terminal /\ Answered("EditorPrompt")

\* the scalar fields of a manifest's YAML, each with the key of the mapping
\* that holds it
ManifestYamlFields(y) ==
    {[under |-> "datasourceType", key |-> k, val |-> y.datasourceType[k]] :
        k \in DOMAIN y.datasourceType}
    \cup {[under |-> "datasourceLocation", key |-> k, val |-> y.datasourceLocation[k]] :
        k \in DOMAIN y.datasourceLocation}

\* the manifest text printed before the confirmation prompt
ShownManifest == printed[4]

\* location AWS S3, format CSV Files, delimiter Commas, header true, bucket
\* "my-bucket", prefix "data/"
SixFieldScenario ==
    /\ Issued("Confirm and detect schema")
    /\ manifest.selectedDatasourceLocation = AWSS3Selector
    /\ manifest.selectedDatasourceType = CommaSeparatedValuesFilesSelector
    /\ manifest.DatasourceFormatConfig =
          [kind |-> "CSVFiles", Delimiter |-> CommasSelector.Value, Header |-> TRUE]
    /\ manifest.DatasourceLocationConfig =
          [kind |-> "AWSS3", Bucket |-> "my-bucket", Prefix |-> "data/"]

\* C12: in that scenario the manifest text displayed at the confirmation
\* step holds exactly six fields: the chosen location, the chosen format,
\* the delimiter, the header flag, the bucket and the prefix.
SixFieldsShown ==
    SixFieldScenario =>
        LET fields == ManifestYamlFields(ShownManifest)
            vals == {f.val : f \in fields}
        IN /\ Cardinality(fields) = 6
           /\ \E f \in fields : f.val \in {AWSS3Selector.Name, AWSS3Selector.Value}
           /\ \E f \in fields : f.val \in {CommaSeparatedValuesFilesSelector.Name,
                                           CommaSeparatedValuesFilesSelector.Value}
           /\ \E f \in fields : f.key = "delimiter" /\ f.val = CommasSelector.Value
           /\ \E f \in fields : f.key = "header" /\ f.val = "true"
           /\ \E f \in fields : f.key = "bucket" /\ f.val = "my-bucket"
           /\ \E f \in fields : f.key = "prefix" /\ f.val = "data/"

\* C13: after a yes to the manifest confirmation, if SamplerFactory,
\* SampleSchema or PreviewSamples fails, the run ends with that
\* collaborator's error unchanged, and neither the editor prompt nor
\* "Confirm finalized schema" is issued.
SamplerFailureEndsRun ==
    \A op \in SamplerOps :
        (Answered(op) /\ Entry(op).err # NoErr) =>
            /\ AnsweredWith("Confirm and detect schema", TRUE)
            /\ pc = "exited"
            /\ err = Entry(op).err
            /\ err \in SamplerErrors
            /\ trace[Len(trace)].op = op
            /\ ~Issued("EditorPrompt")
            /\ ~Issued("Confirm finalized schema")

\* C13 witness: the preview failed after the sampler and the schema succeeded
PreviewFailed ==
    /\ AnsweredOK("SampleSchema")
    /\ Answered("PreviewSamples")
    /\ Entry("PreviewSamples").err \in SamplerErrors

\* C14: for every manifest the builders can produce, parsing the serialized
\* manifest yields a manifest equal to the original in all four fields.
ManifestRoundTrips ==
    Issued("Confirm and detect schema") =>
        \E r \in UnmarshalManifest(ShownManifest) :
            /\ r.err = NoErr
            /\ \A f \in ManifestFields : r.val[f] = manifest[f]

\* C15: every location the location prompt offers has an entry in the
\* compatibility table, so the format step never looks up a location the
\* table lacks and never presents an empty format list.
EveryLocationHasFormats ==
    /\ \A i \in 1..Len(locationSelectors) :
          /\ locationSelectors[i].Value \in DOMAIN allowedSelectors
          /\ LookupSelectors(locationSelectors[i].Value) # <<>>
    /\ Issued("Data format") =>
          /\ manifest.selectedDatasourceLocation.Value \in DOMAIN allowedSelectors
          /\ selectors # <<>>
          /\ \E i \in 1..Len(locationSelectors) :
                manifest.selectedDatasourceLocation = locationSelectors[i]

\* C15 witness: the format prompt is open with the looked-up list
FormatPromptOpen == pc = "Data format" /\ Len(selectors) = 2

\* the manifest as the location step left it, read from the history
ManifestAfterLocation ==
    [ZeroManifest EXCEPT
        !.selectedDatasourceLocation = Entry("Data Source").res,
        !.DatasourceLocationConfig =
            [kind |-> "AWSS3", Bucket |-> Entry("AWS S3 Bucket").res,
             Prefix |-> Entry("AWS S3 Prefix").res]]

\* a prompt of a config builder failed
BuilderPromptFailed(op) == Answered(op) /\ Entry(op).err # NoErr

\* C16: if a prompt inside a config builder fails (bucket or prefix of the S3
\* builder, delimiter or header of the CSV builder), the enclosing step
\* returns that error and leaves every manifest field unchanged: a failed
\* location step leaves the location fields unset, a failed format step
\* leaves the format fields unset and the location fields as they were.
BuilderFailureLeavesManifest ==
    /\ \A op \in {"AWS S3 Bucket", "AWS S3 Prefix"} :
          BuilderPromptFailed(op) =>
              /\ pc = "exited"
              /\ err = Entry(op).err
              /\ manifest = ZeroManifest
              /\ \A f \in ManifestFields : writes[f] = 0
    /\ \A op \in {"Delimiter", "CSV files contain header row"} :
          BuilderPromptFailed(op) =>
              /\ pc = "exited"
              /\ err = Entry(op).err
              /\ manifest = ManifestAfterLocation
              /\ writes["selectedDatasourceType"] = 0
              /\ writes["DatasourceFormatConfig"] = 0

\* C16 witness: the header prompt failed after the delimiter was chosen
HeaderPromptFailed ==
    /\ AnsweredOK("Delimiter")
    /\ BuilderPromptFailed("CSV files contain header row")

\* every option declared in the file, and the zero option
DeclaredSelectors ==
    {IndividualBinaryFilesSelector, CommaSeparatedValuesFilesSelector,
     DatabaseTableSelector, LocalDirectorySelector, AWSS3Selector,
     CommasSelector, TabsSelector, ZeroSelector}

\* C17: in no run does the format step return "database tables not yet
\* supported" or the default "datasource type ... not supported": the value
\* chosen at the format prompt is always the CSV Files or the Individual
\* Files value.
TableAndDefaultCasesUnreachable ==
    /\ err.msg # "database tables not yet supported"
    /\ \A s \in DeclaredSelectors :
          err.msg # "datasource type " \o FormatSelector(s) \o " not supported"
    /\ AnsweredOK("Data format") =>
          /\ Entry("Data format").res.Value \in
                {CommaSeparatedValuesFilesSelector.Value,
                 IndividualBinaryFilesSelector.Value}
          /\ Entry("Data format").res.Value # DatabaseTableSelector.Value
          /\ formatSwitch(Entry("Data format").res).err \in
                {NoErr, ErrorsNew("individual binary files not yet supported")}

\* C17 witness: the format step was the last to run and returned an error
FormatStepFailed ==
    /\ pc = "exited"
    /\ Answered("Data format")
    /\ trace[Len(trace)].op = "Data format"

\* C18: when Local Directory is selected the location step fails with
\* "local directories not yet supported", the manifest's location option and
\* config stay unset, and no bucket, prefix or format prompt is issued, even
\* though the compatibility table holds a format list for Local Directory.
LocalDirectoryUnsupported ==
    AnsweredWith("Data Source", LocalDirectorySelector) =>
        /\ pc = "exited"
        /\ err = ErrorsNew("local directories not yet supported")
        /\ manifest.selectedDatasourceLocation = ZeroSelector
        /\ manifest.DatasourceLocationConfig = NilConfig
        /\ manifest = ZeroManifest
        /\ ~Issued("AWS S3 Bucket")
        /\ ~Issued("AWS S3 Prefix")
        /\ ~Issued("Data format")
        /\ Len(trace) = 1
        /\ LookupSelectors(LocalDirectorySelector.Value) # <<>>

\* C18 witness: Local Directory was selected
LocalDirectoryChosen == AnsweredWith("Data Source", LocalDirectorySelector)

\* C19: whenever the manifest confirmation, the sampler, the editor or the
\* final confirmation is reached (and so in every successful run), the
\* manifest's location is AWS S3 with the bucket and prefix that were typed,
\* and its format is CSV Files with a delimiter of commas or tabs and the
\* header flag that was answered.
ConfirmedManifestIsS3CSV ==
    (Started(3) \/ Started(4) \/ pc = "done") =>
        /\ manifest.selectedDatasourceLocation = AWSS3Selector
        /\ manifest.DatasourceLocationConfig.kind = "AWSS3"
        /\ manifest.DatasourceLocationConfig.Bucket \in Texts
        /\ manifest.DatasourceLocationConfig.Bucket = Entry("AWS S3 Bucket").res
        /\ manifest.DatasourceLocationConfig.Prefix \in Texts
        /\ manifest.DatasourceLocationConfig.Prefix = Entry("AWS S3 Prefix").res
        /\ manifest.selectedDatasourceType = CommaSeparatedValuesFilesSelector
        /\ manifest.DatasourceFormatConfig.kind = "CSVFiles"
        /\ manifest.DatasourceFormatConfig.Delimiter \in
              {CommasSelector.Value, TabsSelector.Value}
        /\ manifest.DatasourceFormatConfig.Delimiter = Entry("Delimiter").res.Value
        /\ manifest.DatasourceFormatConfig.Header \in BOOLEAN
        /\ manifest.DatasourceFormatConfig.Header =
              Entry("CSV files contain header row").res

\* C19 witness: the final confirmation prompt is open
FinalConfirmationOpen == pc = "Confirm finalized schema"

\* the prompts and calls of a run, in the order of the code
OpOrder ==
    <<"Data Source", "AWS S3 Bucket", "AWS S3 Prefix",
      "Data format", "Delimiter", "CSV files contain header row",
      "Confirm and detect schema",
      "SamplerFactory", "SampleSchema", "PreviewSamples",
      "EditorPrompt", "Confirm finalized schema">>

Rank(op) == CHOOSE i \in 1..Len(OpOrder) : OpOrder[i] = op

\* C20: each prompt and each collaborator call happens at most once in a
\* run, so no wizard state is entered twice.
EachPromptAtMostOnce ==
    /\ \A op \in Range(OpOrder) :
          /\ Cardinality({i \in 1..Len(trace) : trace[i].op = op}) <= 1
          /\ pc = op => ~Answered(op)
    /\ \A i \in 1..Len(trace) : trace[i].op \in Range(OpOrder)
    /\ \A i, j \in 1..Len(trace) : i < j => Rank(trace[i].op) < Rank(trace[j].op)
    /\ pc \notin Terminal => \A i \in 1..Len(trace) : Rank(trace[i].op) < Rank(pc)
    /\ Len(trace) <= Len(OpOrder)

\* C20 witness: a run that issued all twelve prompts and calls
AllPromptsIssued == Len(trace) = Len(OpOrder)

====
